---- MODULE Spec2Model ----
(***************************************************************************)
(* ScrapeEase backend: the scrape orchestrator (UniversalScraper           *)
(* .full_scrape), the pagination crawler (scrape_with_pagination) and the  *)
(* two data-cleaning pipelines (DataProcessor.clean_data and               *)
(* UniversalScraper.clean_and_process_data); the scraper's methods         *)
(* validate_url, detect_data_structure and scrape_table_data on a parsed   *)
(* document; the endpoints of scraping.py with the lifetime of the         *)
(* scraper's HTTP session; the endpoints of files.py and FileManager's     *)
(* delete_scrape_files; the rate limiter of deps.py and the routes' use    *)
(* of it.                                                                  *)
(*                                                                         *)
(* Text is a sequence of one-character strings, so that trimming, regex    *)
(* character stripping, prefix and substring tests are computed and not    *)
(* assumed.  A cell value is a pair <<tag, text>>:                         *)
(*   <<"str", s>>   a Python str                                           *)
(*   <<"num", s>>   a number, s being its canonical decimal text           *)
(*   <<"NaN", <<>>>>  float nan (a missing key in pd.DataFrame(records))   *)
(*   <<"None", <<>>>> Python None                                          *)
(* pandas semantics are those of pandas >= 1.4 and < 3: an explicit        *)
(* value=None in Series.replace replaces by None, and                      *)
(* pd.to_numeric(errors='ignore') returns its input when any cell fails.   *)
(***************************************************************************)
EXTENDS Integers, Sequences, FiniteSets, TLC

----------------------------------------------------------------------------
(* Text helpers                                                            *)

Whitespace == {" ", "\t", "\n"}

Digits == {"0", "1", "2", "3", "4", "5", "6", "7", "8", "9"}

UpperCase == <<"A", "B", "C", "D", "E", "F", "G", "H", "I", "J", "K", "L", "M",
               "N", "O", "P", "Q", "R", "S", "T", "U", "V", "W", "X", "Y", "Z">>

LowerCase == <<"a", "b", "c", "d", "e", "f", "g", "h", "i", "j", "k", "l", "m",
               "n", "o", "p", "q", "r", "s", "t", "u", "v", "w", "x", "y", "z">>

\* str.lower()
lower(s) ==
    [i \in 1..Len(s) |->
        IF \E k \in 1..Len(UpperCase) : UpperCase[k] = s[i]
        THEN LowerCase[CHOOSE k \in 1..Len(UpperCase) : UpperCase[k] = s[i]]
        ELSE s[i]]

RECURSIVE lstrip(_)
lstrip(s) == IF s # <<>> /\ Head(s) \in Whitespace THEN lstrip(Tail(s)) ELSE s

RECURSIVE rstrip(_)
rstrip(s) ==
    IF s # <<>> /\ s[Len(s)] \in Whitespace
    THEN rstrip(SubSeq(s, 1, Len(s) - 1))
    ELSE s

\* str.strip()
strip(s) == rstrip(lstrip(s))

\* t in s (substring test)
contains(s, t) == \E i \in 1..(Len(s) - Len(t) + 1) : SubSeq(s, i, i + Len(t) - 1) = t

\* s.startswith(t)
startswith(s, t) == Len(s) >= Len(t) /\ SubSeq(s, 1, Len(t)) = t

----------------------------------------------------------------------------
(* Cell values                                                             *)

Str(s) == <<"str", s>>

Num(s) == <<"num", s>>

NaN == <<"NaN", <<>>>>

None == <<"None", <<>>>>

\* pd.isna
isna(v) == v[1] \in {"NaN", "None"}

\* Series.astype(str) on one cell: str(value)
astype_str(v) ==
    CASE v[1] = "str" -> v[2]
      [] v[1] = "num" -> v[2]
      [] v[1] = "None" -> <<"N", "o", "n", "e">>
      [] v[1] = "NaN" -> <<"n", "a", "n">>

\* the text without its leading sign
unsigned(s) == IF s # <<>> /\ Head(s) = "-" THEN Tail(s) ELSE s

\* whether pd.to_numeric parses the non-empty text s: an optional '-', digits
\* with at most one '.', at least one digit (exponents and words cannot occur:
\* the callers strip every letter first)
parses(s) ==
    LET b == unsigned(s) IN
        /\ \A i \in 1..Len(b) : b[i] \in Digits \cup {"."}
        /\ Cardinality({i \in 1..Len(b) : b[i] = "."}) <= 1
        /\ \E i \in 1..Len(b) : b[i] \in Digits

RECURSIVE dropLeadingZeros(_)
dropLeadingZeros(s) ==
    IF s # <<>> /\ Head(s) = "0" THEN dropLeadingZeros(Tail(s)) ELSE s

RECURSIVE dropTrailingZeros(_)
dropTrailingZeros(s) ==
    IF s # <<>> /\ s[Len(s)] = "0"
    THEN dropTrailingZeros(SubSeq(s, 1, Len(s) - 1))
    ELSE s

\* the number a parsed text denotes, as the text str(float) prints for it
\* (positional notation: magnitudes between 1e-4 and 1e16)
number(s) ==
    LET b == unsigned(s)
        d == IF \E i \in 1..Len(b) : b[i] = "."
             THEN CHOOSE i \in 1..Len(b) : b[i] = "."
             ELSE Len(b) + 1
        ip0 == dropLeadingZeros(SubSeq(b, 1, d - 1))
        fp0 == dropTrailingZeros(SubSeq(b, d + 1, Len(b)))
        ip == IF ip0 = <<>> THEN <<"0">> ELSE ip0
        fp == IF fp0 = <<>> THEN <<"0">> ELSE fp0
        neg == s # <<>> /\ Head(s) = "-" /\ ~(ip = <<"0">> /\ fp = <<"0">>)
    IN  Num((IF neg THEN <<"-">> ELSE <<>>) \o ip \o <<".">> \o fp)

----------------------------------------------------------------------------
(* Data frames: columns in order, rows as tuples aligned with the columns. *)
(* A raw record is a Python dict: a sequence of <<key, value>> pairs in    *)
(* insertion order.                                                        *)

haskey(rec, k) == \E i \in 1..Len(rec) : rec[i][1] = k

getkey(rec, k) == rec[CHOOSE i \in 1..Len(rec) : rec[i][1] = k][2]

RECURSIVE firstSeen(_, _)
firstSeen(keys, seen) ==
    IF keys = <<>> THEN seen
    ELSE IF \E i \in 1..Len(seen) : seen[i] = Head(keys)
         THEN firstSeen(Tail(keys), seen)
         ELSE firstSeen(Tail(keys), Append(seen, Head(keys)))

RECURSIVE allKeys(_)
allKeys(raw) ==
    IF raw = <<>> THEN <<>>
    ELSE [i \in 1..Len(Head(raw)) |-> Head(raw)[i][1]] \o allKeys(Tail(raw))

\* pd.DataFrame(list of dicts): the union of the keys in first-seen order, a
\* missing key is NaN
DataFrame(raw) ==
    LET cols == firstSeen(allKeys(raw), <<>>) IN
        [columns |-> cols,
         rows |-> [i \in 1..Len(raw) |->
                     [j \in 1..Len(cols) |->
                        IF haskey(raw[i], cols[j]) THEN getkey(raw[i], cols[j]) ELSE NaN]]]

EmptyFrame == [columns |-> <<>>, rows |-> <<>>]

\* df.to_dict('records')
to_records(df) ==
    [i \in 1..Len(df.rows) |->
        [j \in 1..Len(df.columns) |-> <<df.columns[j], df.rows[i][j]>>]]

column(df, j) == [i \in 1..Len(df.rows) |-> df.rows[i][j]]

\* the column's dtype is object unless every cell is a float (numbers and NaN)
isObject(col) == \E i \in 1..Len(col) : col[i][1] \notin {"num", "NaN"}

\* df.dropna(how='all'): keep the rows with at least one non-null cell
dropna_all(df) ==
    [df EXCEPT !.rows =
        SelectSeq(df.rows, LAMBDA r : \E j \in 1..Len(r) : ~isna(r[j]))]

\* null cells compare equal whatever their kind
nullfree(r) == [j \in 1..Len(r) |-> IF isna(r[j]) THEN None ELSE r[j]]

RECURSIVE keepFirst(_, _)
keepFirst(rows, kept) ==
    IF rows = <<>> THEN kept
    ELSE IF \E i \in 1..Len(kept) : nullfree(kept[i]) = nullfree(Head(rows))
         THEN keepFirst(Tail(rows), kept)
         ELSE keepFirst(Tail(rows), Append(kept, Head(rows)))

\* df.drop_duplicates(): the first of every group of equal rows is kept
drop_duplicates(df) == [df EXCEPT !.rows = keepFirst(df.rows, <<>>)]

\* df[col] = cols[j] for every column j
setColumns(df, cols) ==
    [df EXCEPT !.rows =
        [i \in 1..Len(df.rows) |-> [j \in 1..Len(df.columns) |-> cols[j][i]]]]

\* re.sub of every character outside keep by '' on one cell's text
stripChars(s, keep) == SelectSeq(s, LAMBDA c : c \in keep)

\* pd.to_numeric(series of str, errors='ignore'): the empty text parses to
\* NaN; when any cell fails to parse, the input series is returned as it is
to_numeric_ignore(strs) ==
    IF \A i \in 1..Len(strs) : strs[i] = <<>> \/ parses(strs[i])
    THEN [i \in 1..Len(strs) |-> IF strs[i] = <<>> THEN NaN ELSE number(strs[i])]
    ELSE [i \in 1..Len(strs) |-> Str(strs[i])]

----------------------------------------------------------------------------
(* DataProcessor.clean_data                                                *)

t_price == <<"p", "r", "i", "c", "e">>
t_cost == <<"c", "o", "s", "t">>
t_amount == <<"a", "m", "o", "u", "n", "t">>
t_value == <<"v", "a", "l", "u", "e">>
t_rating == <<"r", "a", "t", "i", "n", "g">>
t_score == <<"s", "c", "o", "r", "e">>
t_number == <<"n", "u", "m", "b", "e", "r">>
t_count == <<"c", "o", "u", "n", "t">>
t_url == <<"u", "r", "l">>
t_link == <<"l", "i", "n", "k">>
t_None == <<"N", "o", "n", "e">>
t_nan == <<"n", "a", "n">>
t_http == <<"h", "t", "t", "p", ":", "/", "/">>
t_https == <<"h", "t", "t", "p", "s", ":", "/", "/">>

numeric_indicators ==
    {t_price, t_cost, t_amount, t_value, t_rating, t_score, t_number, t_count}

\* the object columns: stripped, and '', 'None', 'nan' replaced by None
dp_clean_text(name, col) ==
    IF isObject(col)
    THEN [i \in 1..Len(col) |->
            LET s == strip(astype_str(col[i])) IN
                IF s \in {<<>>, t_None, t_nan} THEN None ELSE Str(s)]
    ELSE col

\* the columns whose lowercase name contains an indicator: every character
\* other than digits, '.' and '-' removed, then pd.to_numeric(errors='ignore')
dp_to_numeric(name, col) ==
    IF \E ind \in numeric_indicators : contains(lower(name), ind)
    THEN to_numeric_ignore(
            [i \in 1..Len(col) |-> stripChars(astype_str(col[i]), Digits \cup {".", "-"})])
    ELSE col

_clean_url(url) ==
    IF isna(url) \/ astype_str(url) = <<>> \/ url = Num(<<"0", ".", "0">>)
    THEN None
    ELSE LET s == strip(astype_str(url)) IN
            IF startswith(s, t_http) \/ startswith(s, t_https) THEN Str(s) ELSE None

dp_clean_urls(name, col) ==
    IF contains(lower(name), t_url) \/ contains(lower(name), t_link)
    THEN [i \in 1..Len(col) |-> _clean_url(col[i])]
    ELSE col

clean_data(raw_data) ==
    IF raw_data = <<>> THEN EmptyFrame
    ELSE LET df0 == dropna_all(DataFrame(raw_data))
             df1 == setColumns(df0,
                     [j \in 1..Len(df0.columns) |->
                         dp_clean_text(df0.columns[j], column(df0, j))])
             df2 == setColumns(df1,
                     [j \in 1..Len(df1.columns) |->
                         dp_to_numeric(df1.columns[j], column(df1, j))])
             df3 == setColumns(df2,
                     [j \in 1..Len(df2.columns) |->
                         dp_clean_urls(df2.columns[j], column(df2, j))])
         IN  drop_duplicates(df3)

----------------------------------------------------------------------------
(* UniversalScraper.clean_and_process_data                                 *)

scraper_numeric_names == {t_price, t_cost, t_amount, t_value, t_rating, t_score}

\* the object columns: stripped, and '' replaced by None
sc_clean_text(name, col) ==
    IF isObject(col)
    THEN [i \in 1..Len(col) |->
            LET s == strip(astype_str(col[i])) IN
                IF s = <<>> THEN None ELSE Str(s)]
    ELSE col

\* the columns whose lowercase name is one of the names: every character
\* other than digits and '.' removed, then pd.to_numeric(errors='ignore')
sc_to_numeric(name, col) ==
    IF lower(name) \in scraper_numeric_names
    THEN to_numeric_ignore(
            [i \in 1..Len(col) |-> stripChars(astype_str(col[i]), Digits \cup {"."})])
    ELSE col

clean_and_process_data(raw_data) ==
    IF raw_data = <<>> THEN EmptyFrame
    ELSE LET df0 == dropna_all(DataFrame(raw_data))
             df1 == setColumns(df0,
                     [j \in 1..Len(df0.columns) |->
                         sc_clean_text(df0.columns[j], column(df0, j))])
         IN  setColumns(df1,
                 [j \in 1..Len(df1.columns) |->
                     sc_to_numeric(df1.columns[j], column(df1, j))])

\* two datasets with the same columns and the same rows in the same order
sameDataset(a, b) ==
    /\ a.columns = b.columns
    /\ Len(a.rows) = Len(b.rows)
    /\ \A i \in 1..Len(a.rows) : nullfree(a.rows[i]) = nullfree(b.rows[i])

----------------------------------------------------------------------------
(* HTML documents, as BeautifulSoup shows them to the scraper.  A document *)
(* holds its <table> elements in document order (a table is its <tr> rows, *)
(* a row its th/td cell texts and the href of its first anchor, <<>> for   *)
(* none), its other elements in document order (tag, class tokens, text),  *)
(* the number of its ul/ol lists and its title (<<>>: no <title>).         *)
(* The rows of a table are what find_all('tr') returns for it, and         *)
(* parents[i] names the element the i-th table is a child of (0: the body; *)
(* tables with the same parent are siblings, in document order).           *)
(* A response is what session.get gave: an exception, or a status and a    *)
(* parsed body.                                                            *)

t_product == <<"p", "r", "o", "d", "u", "c", "t">>
t_item == <<"i", "t", "e", "m">>
t_card == <<"c", "a", "r", "d">>
t_listing == <<"l", "i", "s", "t", "i", "n", "g">>
t_entry == <<"e", "n", "t", "r", "y">>
t_post == <<"p", "o", "s", "t">>
t_article == <<"a", "r", "t", "i", "c", "l", "e">>
t_name == <<"N", "a", "m", "e">>
t_Price == <<"P", "r", "i", "c", "e">>
t_source_url == <<"_", "s", "o", "u", "r", "c", "e", "_", "u", "r", "l">>
t_Column_ == <<"C", "o", "l", "u", "m", "n", "_">>

DigitChar(n) == <<"0", "1", "2", "3", "4", "5", "6", "7", "8", "9">>[(n % 10) + 1]

Min(a, b) == IF a < b THEN a ELSE b

\* row_data[k] = v on a Python dict: a new key goes last, a key already
\* there keeps its place and takes the new value
setitem(rec, k, v) ==
    IF haskey(rec, k)
    THEN [i \in 1..Len(rec) |-> IF rec[i][1] = k THEN <<k, v>> ELSE rec[i]]
    ELSE Append(rec, <<k, v>>)

\* headers[i] if i < len(headers) else f"Column_{i+1}", for the j-th cell
header_of(headers, j) ==
    IF j <= Len(headers) THEN headers[j] ELSE t_Column_ \o <<DigitChar(j)>>

\* for i, cell in enumerate(cells): row_data[header] = cell.get_text().strip()
RECURSIVE cells_into(_, _, _, _)
cells_into(row_data, cells, headers, j) ==
    IF j > Len(cells) THEN row_data
    ELSE cells_into(setitem(row_data, header_of(headers, j), Str(strip(cells[j]))),
                    cells, headers, j + 1)

\* the record of one data row, with the row's link when it has one
row_record(row, headers) ==
    LET row_data == cells_into(<<>>, row.cells, headers, 1)
    IN  IF row.href # <<>> THEN setitem(row_data, t_source_url, Str(row.href))
        ELSE row_data

\* rows that take the header row for a data row
data_rows_all(rows) == rows

\* rows[1:]
data_rows(rows) == Tail(rows)

\* scrape_table_data from the selected table on: no row gives no record, the
\* first row gives the header labels, every later row one record
table_data(table) ==
    IF table.rows = <<>> THEN <<>>
    ELSE LET headers == [j \in 1..Len(table.rows[1].cells) |->
                            strip(table.rows[1].cells[j])]
             rest == data_rows(table.rows)
         IN  [i \in 1..Len(rest) |-> row_record(rest[i], headers)]

\* scrape_table_data with the default selector "table" on one response: the
\* call raises when the fetch raised and when the document has no table
scrape_table_data_default(resp) ==
    IF resp.raised THEN [raised |-> TRUE, data |-> <<>>]
    ELSE IF resp.body.tables = <<>> THEN [raised |-> TRUE, data |-> <<>>]
    ELSE [raised |-> FALSE, data |-> table_data(resp.body.tables[1])]

\* a check that takes every 2xx status for a success
status_ok_2xx(status) == status \in 200..299

\* response.status != 200, negated
status_ok(status) == status = 200

\* f"HTTP {response.status}: {response.reason}"
http_error(status) ==
    CASE status = 204 -> "HTTP 204: No Content"
      [] status = 404 -> "HTTP 404: Not Found"
      [] OTHER -> "HTTP 500: Internal Server Error"

\* str(e) of the exception a fetch raised
fetch_error == "Cannot connect to host"

\* soup.find_all('div', class_=True)
divs_with_classes(doc) ==
    SelectSeq(doc.elems, LAMBDA e : e.tag = "div" /\ e.class # <<>>)

t_No_title == <<"N", "o", " ", "t", "i", "t", "l", "e">>

\* UniversalScraper.validate_url on one response
validate_url(resp) ==
    IF resp.raised THEN [valid |-> FALSE, error |-> fetch_error]
    ELSE IF ~status_ok(resp.status)
    THEN [valid |-> FALSE, error |-> http_error(resp.status)]
    ELSE [valid |-> TRUE,
          tables_found |-> Len(resp.body.tables),
          lists_found |-> resp.body.lists,
          structured_divs |-> Len(divs_with_classes(resp.body)),
          potential_sources |-> Len(resp.body.tables) + resp.body.lists
                                    + Len(divs_with_classes(resp.body)),
          title |-> IF resp.body.title # <<>> THEN resp.body.title ELSE t_No_title]

\* ' '.join(tokens)
RECURSIVE join(_)
join(tokens) ==
    IF tokens = <<>> THEN <<>>
    ELSE IF Len(tokens) = 1 THEN tokens[1]
    ELSE tokens[1] \o <<" ">> \o join(Tail(tokens))

common_item_classes ==
    <<t_product, t_item, t_card, t_listing, t_entry, t_post, t_article>>

\* find_all(class_=lambda x: x and class_name in x.lower()): the function is
\* tried on every class token and then on the whole class string; an element
\* without class never matches
class_matches(e, class_name) ==
    /\ e.class # <<>>
    /\ \/ \E k \in 1..Len(e.class) : contains(lower(e.class[k]), class_name)
       \/ contains(lower(join(e.class)), class_name)

NoStrategy == [type |-> "None"]

\* a detection that looks at every table of the document
table_strategies_uncapped(doc) ==
    LET idx == SelectSeq([i \in 1..Len(doc.tables) |-> i],
                         LAMBDA i : Len(doc.tables[i].rows) > 1)
    IN  [k \in 1..Len(idx) |->
            [type |-> "table",
             selector |-> [kind |-> "nth-of-type", tag |-> "table", n |-> idx[k]],
             estimated_rows |-> Len(doc.tables[idx[k]].rows),
             estimated_columns |-> Len(doc.tables[idx[k]].rows[1].cells)]]

\* Strategy 1: the first 3 tables, those with more than one row
table_strategies(doc) ==
    LET idx == SelectSeq([i \in 1..Min(3, Len(doc.tables)) |-> i],
                         LAMBDA i : Len(doc.tables[i].rows) > 1)
    IN  [k \in 1..Len(idx) |->
            [type |-> "table",
             selector |-> [kind |-> "nth-of-type", tag |-> "table", n |-> idx[k]],
             estimated_rows |-> Len(doc.tables[idx[k]].rows),
             estimated_columns |-> Len(doc.tables[idx[k]].rows[1].cells)]]

\* Strategy 2: one candidate per vocabulary word matched by more than 3
\* elements, in the order of the vocabulary
list_strategies(doc) ==
    LET items(c) == SelectSeq(doc.elems, LAMBDA e : class_matches(e, c))
        words == SelectSeq(common_item_classes, LAMBDA c : Len(items(c)) > 3)
    IN  [k \in 1..Len(words) |->
            [type |-> "list_items",
             selector |-> [kind |-> "class", classes |-> <<words[k]>>],
             estimated_items |-> Len(items(words[k])),
             sample_content |-> SubSeq(items(words[k])[1].text, 1,
                                       Min(100, Len(items(words[k])[1].text)))]]

\* Strategy 3: the section, article and div elements with a class, grouped
\* by their class string in first-seen order; one candidate per class string
\* seen more than 3 times
section_strategies(doc) ==
    LET sections == SelectSeq(doc.elems,
                        LAMBDA e : e.tag \in {"section", "article", "div"}
                                        /\ e.class # <<>>)
        class_strs == firstSeen([i \in 1..Len(sections) |-> sections[i].class], <<>>)
        count(c) == Len(SelectSeq(sections, LAMBDA e : e.class = c))
        repeated == SelectSeq(class_strs, LAMBDA c : count(c) > 3)
    IN  [k \in 1..Len(repeated) |->
            [type |-> "repeated_sections",
             selector |-> [kind |-> "class", classes |-> repeated[k]],
             estimated_items |-> count(repeated[k])]]

\* a recommendation that takes the last candidate
recommended_last(strategies) ==
    IF strategies # <<>> THEN strategies[Len(strategies)] ELSE NoStrategy

\* strategies[0] if strategies else None
recommended(strategies) ==
    IF strategies # <<>> THEN strategies[1] ELSE NoStrategy

\* UniversalScraper.detect_data_structure on one response; the status of the
\* response is not looked at
detect_data_structure(resp) ==
    IF resp.raised THEN [success |-> FALSE, error |-> fetch_error]
    ELSE LET strategies == table_strategies(resp.body) \o list_strategies(resp.body)
                                \o section_strategies(resp.body)
         IN  [success |-> TRUE,
              strategies |-> strategies,
              recommended_strategy |-> recommended(strategies)]

\* whether element e carries every class token of the selector .c1.c2...
has_classes(e, classes) ==
    \A k \in 1..Len(classes) : \E m \in 1..Len(e.class) : e.class[m] = classes[k]

\* the position of the i-th table among the tables of its parent
nth_of_type(doc, i) == Cardinality({j \in 1..i : doc.parents[j] = doc.parents[i]})

\* soup.select(selector): the positions of the matched elements, in document
\* order.  '.c1.c2' matches the elements with all the class tokens,
\* 'table:nth-of-type(n)' the tables that are the n-th table of their parent
select(doc, selector) ==
    IF selector.kind = "class"
    THEN SelectSeq([i \in 1..Len(doc.elems) |-> i],
                   LAMBDA i : has_classes(doc.elems[i], selector.classes))
    ELSE SelectSeq([i \in 1..Len(doc.tables) |-> i],
                   LAMBDA i : nth_of_type(doc, i) = selector.n)

\* soup.select_one(selector): the first match, 0 for None
select_one(doc, selector) ==
    IF select(doc, selector) = <<>> THEN 0 ELSE select(doc, selector)[1]

\* scrape_table_data(url, table_selector) on one response: ValueError when
\* the selector matches no table
scrape_table_data_at(resp, table_selector) ==
    IF resp.raised THEN [raised |-> TRUE, data |-> <<>>]
    ELSE IF select_one(resp.body, table_selector) = 0
         THEN [raised |-> TRUE, data |-> <<>>]
         ELSE [raised |-> FALSE,
               data |-> table_data(resp.body.tables[select_one(resp.body,
                                                               table_selector)])]

\* scrape_list_items(url, item_selector, {}) on one response: ValueError
\* when the selector matches nothing, else one record per matched item (an
\* empty dict: no field is configured, and the items hold no anchor)
scrape_list_items_at(resp, item_selector) ==
    IF resp.raised THEN [raised |-> TRUE, data |-> <<>>]
    ELSE IF select(resp.body, item_selector) = <<>>
         THEN [raised |-> TRUE, data |-> <<>>]
         ELSE [raised |-> FALSE,
               data |-> [i \in 1..Len(select(resp.body, item_selector)) |-> <<>>]]

----------------------------------------------------------------------------
(* The web, as the crawler sees it.  Pages are numbered 1..NPages; URL 0   *)
(* stands for None (no next link).  Every request is answered on its own:  *)
(* a fetch may fail and the 'next' link a page shows is chosen per request.*)

NPages == 3

MaxBudget == 3

\* the server's document for a URL may change between two requests: every
\* answer is the document before or after the change
Revisions == {"before", "after"}

Pages == 1..NPages


\* the number of data rows of page p's table (pages with 0, 1 and 2 rows occur)
RowsOn(p) == p % 3

\* the table of page p: the header row Name, Price and RowsOn(p) data rows,
\* the second of them with empty cells
PageTable(p) ==
    [rows |-> <<[cells |-> <<t_name, t_Price>>, href |-> <<>>]>> \o
              [i \in 1..RowsOn(p) |->
                  [cells |-> IF i = 2 THEN << <<>>, <<>> >>
                             ELSE << <<"P", DigitChar(p)>>,
                                     <<"$", DigitChar(p), DigitChar(i)>> >>,
                   href |-> <<>>]]]

\* scrape_table_data on page p: one record per data row, in row order, keyed
\* by the header labels
scrape_table_data(p) == table_data(PageTable(p))

\* scrape_list_items on page p with the default fields_config {}: one record
\* per matched item, holding only the item's link when it has one
scrape_list_items(p) ==
    [i \in 1..(RowsOn(p) + 1) |->
        IF i = 1
        THEN << <<t_source_url, Str(t_http \o <<"p", DigitChar(p)>>)>> >>
        ELSE <<>>]

\* the strategy argument of full_scrape: None, the empty dict, a dict
\* without a 'type' key, or a dict of the given type
StrategyTypes == {"table", "list_items", "repeated_sections"}

StrategyArgs == {"None", "empty", "untyped"} \cup StrategyTypes

ScrapeIds == {"uuid_a", "uuid_b"}

\* Python truthiness of the strategy argument
truthy(strategy) == strategy \notin {"None", "empty"}

\* a failure result that loses the identifier of the call
failure_without_id(error, id) == [success |-> FALSE, error |-> error, scrape_id |-> ""]

\* the results of full_scrape
failure(error, id) == [success |-> FALSE, error |-> error, scrape_id |-> id]

success(id, df) ==
    [success |-> TRUE, scrape_id |-> id, total_records |-> Len(df.rows),
     columns |-> df.columns]

NoResult == [success |-> FALSE]

\* except Exception as e: the call returns a failure carrying str(e)
on_exception(error, id) == [pc |-> "returned", result |-> failure(error, id)]

\* a loop condition that forgets the page budget
loop_continues_unbounded(cur, count, budget) == cur # 0

\* the while condition of scrape_with_pagination
loop_continues(cur, count, budget) == cur # 0 /\ count < budget

\* the page's records put in front of the accumulated ones
extend_prepend(all, page_data) == page_data \o all

\* all_data.extend(page_data)
extend(all, page_data) == all \o page_data

\* a failed page that discards what was accumulated
soft_stop_discard(all) == <<>>

\* except Exception: break, then return all_data
soft_stop(all) == all

\* a crawler that takes every strategy type for a list strategy
supported_any(type) == TRUE

\* the if/elif of the crawl loop: the types that have an extractor; any other
\* type reaches the else branch (break)
supported(type) == type \in {"table", "list_items"}

\* detection run whatever the strategy argument
needs_detection_always(strategy) == TRUE

\* if not strategy: whether full_scrape runs detection
needs_detection(strategy) == ~truthy(strategy)

VARIABLES
    pc,             \* where full_scrape is
    url,            \* the start URL
    strategy,       \* the strategy in use (the argument, then the detected one)
    strategy_arg,   \* the strategy argument as it was passed
    max_pages,      \* self.max_pages
    scrape_id,      \* the identifier generated by this call ("" before)
    validation,     \* the result of validate_url
    detection,      \* the result of detect_data_structure
    current_url, page_count, all_data,   \* locals of scrape_with_pagination
    raw_data, df,   \* locals of full_scrape
    files,          \* the files written under data/processed
    result,         \* what full_scrape returned
    steps,          \* history: the steps full_scrape ran, in order
    visited,        \* history: the pages whose records were appended, in order
    links,          \* history: the 'next' links discovered, in order (0: none)
    stop_reason,    \* history: why the crawl loop ended
    records_rev,    \* history: the response the last appended records came from
    link_rev,       \* history: the response the last followed link came from
    cstage, cx, dp1, dp2, sc1,  \* the cleaning pipelines applied to an input
    response,       \* what session.get gave to a scraper method called alone
    dstage,         \* which scraper method was called on the response
    vresult,        \* the result of validate_url
    dresult,        \* the result of detect_data_structure
    table_result,   \* the result of scrape_table_data
    applied,        \* the detected candidate the extractor was called with
    selected,       \* history: what that candidate's selector matched
    endpoint,       \* the endpoint of scraping.py that serves the request
    request_max_pages,  \* ScrapeRequest.max_pages ("None": null)
    budget,         \* the local max_pages of scrape_url
    session,        \* UniversalScraper.session: "None", "open" or "closed"
    apc,            \* where the endpoint is
    body_end,       \* how the body of the async with block ended
    http_status,    \* the status of the HTTP answer (0: none yet)
    store,          \* the file names in data/processed
    store_before,   \* history: the file names when the request arrived
    file_request,   \* a request to an endpoint of files.py
    file_response,  \* its answer
    fstage,         \* where the files endpoint is
    rl_requests,    \* rate_limiter.requests: per client IP, the deque of times
    rl_now,         \* time.time()
    rl_last,        \* the last is_allowed call and what it returned
    rl_allowed,     \* history: per client IP and endpoint type, the times of
                    \* the calls that returned True
    sent,           \* history: per client IP, the times of its validate-url
                    \* requests
    answer          \* the HTTP status of the last validate-url request

vars == <<pc, url, strategy, strategy_arg, max_pages, scrape_id, validation,
          detection, current_url, page_count, all_data, raw_data, df, files,
          result, steps, visited, links, stop_reason, records_rev, link_rev,
          cstage, cx, dp1, dp2, sc1,
          response, dstage, vresult, dresult, table_result, applied, selected,
          endpoint, request_max_pages, budget, session, apc, body_end, http_status,
          store, store_before, file_request, file_response, fstage,
          rl_requests, rl_now, rl_last, rl_allowed, sent, answer>>

cleanVars == <<cstage, cx, dp1, dp2, sc1>>

docVars == <<response, dstage, vresult, dresult, table_result, applied, selected>>

apiVars == <<endpoint, request_max_pages, budget, session, apc, body_end, http_status>>

fileVars == <<store, store_before, file_request, file_response, fstage>>

rateVars == <<rl_requests, rl_now, rl_last, rl_allowed, sent, answer>>

scrapeVars == <<pc, url, strategy, strategy_arg, max_pages, scrape_id, validation,
                detection, current_url, page_count, all_data, raw_data, df, files,
                result, steps, visited, links, stop_reason, records_rev, link_rev>>

CleanIdle ==
    /\ cstage = "idle"
    /\ cx = <<>>
    /\ dp1 = EmptyFrame
    /\ dp2 = EmptyFrame
    /\ sc1 = EmptyFrame

EmptyDoc == [tables |-> <<>>, parents |-> <<>>, elems |-> <<>>, lists |-> 0,
             title |-> <<>>]

NoResponse == [raised |-> TRUE, status |-> 0, body |-> EmptyDoc]

\* no scraper method is called alone
DocIdle ==
    /\ response = NoResponse
    /\ dstage = "idle"
    /\ vresult = [valid |-> FALSE, error |-> ""]
    /\ dresult = [success |-> FALSE, error |-> ""]
    /\ table_result = [raised |-> FALSE, data |-> <<>>]
    /\ applied = NoStrategy
    /\ selected = <<>>

\* no endpoint is involved: the caller has entered the scraper's context
\* (async with UniversalScraper(...) as scraper) and calls its methods
ApiDirect ==
    /\ endpoint = "direct"
    /\ request_max_pages = <<>>
    /\ budget = 0
    /\ session = "open"
    /\ apc = "body"
    /\ body_end = "none"
    /\ http_status = 0

\* no request to the files endpoints
FilesIdle ==
    /\ store = {}
    /\ store_before = {}
    /\ file_request = [op |-> "none"]
    /\ file_response = [status |-> 0]
    /\ fstage = "idle"

\* the client addresses that requests come from
ClientIps == {"10.0.0.1"}

\* the endpoint types that deps.py declares a dependency for
EndpointTypes == {"scraping", "download", "validation"}

\* the rate limiter as constructed, and no request sent
RateIdle ==
    /\ rl_requests = [ip \in ClientIps |-> <<>>]
    /\ rl_now = 0
    /\ rl_last = [client_ip |-> "", endpoint_type |-> "", time |-> 0, allowed |-> TRUE]
    /\ rl_allowed = [ip \in ClientIps |-> [t \in EndpointTypes |-> <<>>]]
    /\ sent = [ip \in ClientIps |-> <<>>]
    /\ answer = 0

\* a scraper constructed with max_pages, and the arguments of one full_scrape call
Init ==
    /\ pc = "call"
    /\ url \in Pages
    /\ strategy_arg \in StrategyArgs
    /\ strategy = strategy_arg
    /\ max_pages \in 0..MaxBudget
    /\ scrape_id = ""
    /\ validation = [valid |-> FALSE, error |-> ""]
    /\ detection = [success |-> FALSE, strategies |-> 0, recommended |-> "None"]
    /\ current_url = 0
    /\ page_count = 0
    /\ all_data = <<>>
    /\ raw_data = <<>>
    /\ df = EmptyFrame
    /\ files = {}
    /\ result = NoResult
    /\ steps = <<>>
    /\ visited = <<>>
    /\ links = <<>>
    /\ stop_reason = "none"
    /\ records_rev = "none"
    /\ link_rev = "none"
    /\ CleanIdle
    /\ DocIdle
    /\ ApiDirect
    /\ FilesIdle
    /\ RateIdle

\* scrape_id = str(uuid.uuid4())
GenerateId ==
    /\ pc = "call"
    /\ \E id \in ScrapeIds : scrape_id' = id
    /\ pc' = "validate"
    /\ UNCHANGED <<url, strategy, strategy_arg, max_pages, validation, detection,
                   current_url, page_count, all_data, raw_data, df, files, result,
                   steps, visited, links, stop_reason>>
    /\ UNCHANGED <<records_rev, link_rev>>
    /\ UNCHANGED <<cleanVars, docVars, apiVars, fileVars>>
    /\ UNCHANGED rateVars

\* validate_url answers valid, an HTTP status other than 200, or the text of
\* the exception the fetch raised; full_scrape returns the error or goes on
\* to detection (no strategy) or to the crawl
ValidateUrl ==
    /\ pc = "validate"
    /\ \E v \in {[valid |-> TRUE, error |-> ""],
                 [valid |-> FALSE, error |-> "HTTP 404: Not Found"],
                 [valid |-> FALSE, error |-> "Cannot connect to host"]} :
        /\ validation' = v
        /\ steps' = Append(steps, "validate_url")
        /\ IF ~v.valid
           THEN /\ result' = failure(v.error, scrape_id)
                /\ pc' = "returned"
           ELSE /\ UNCHANGED result
                /\ pc' = IF needs_detection(strategy) THEN "detect" ELSE "crawl_call"
    /\ UNCHANGED <<url, strategy, strategy_arg, max_pages, scrape_id, detection,
                   current_url, page_count, all_data, raw_data, df, files, visited, links,
                   stop_reason>>
    /\ UNCHANGED <<records_rev, link_rev>>
    /\ UNCHANGED <<cleanVars, docVars, apiVars, fileVars>>
    /\ UNCHANGED rateVars

\* detect_data_structure fails, finds no candidate, or recommends its first
\* candidate
Detect ==
    /\ pc = "detect"
    /\ \E d \in {[success |-> FALSE, strategies |-> 0, recommended |-> "None"],
                 [success |-> TRUE, strategies |-> 0, recommended |-> "None"]}
                \cup {[success |-> TRUE, strategies |-> 1, recommended |-> t] :
                        t \in StrategyTypes} :
        /\ detection' = d
        /\ steps' = Append(steps, "detect_data_structure")
        /\ IF ~d.success \/ d.strategies = 0
           THEN /\ result' = failure("No suitable data structure detected", scrape_id)
                /\ pc' = "returned"
                /\ UNCHANGED strategy
           ELSE /\ strategy' = d.recommended
                /\ pc' = "crawl_call"
                /\ UNCHANGED result
    /\ UNCHANGED <<url, strategy_arg, max_pages, scrape_id, validation,
                   current_url, page_count,
                   all_data, raw_data, df, files, visited, links, stop_reason>>
    /\ UNCHANGED <<records_rev, link_rev>>
    /\ UNCHANGED <<cleanVars, docVars, apiVars, fileVars>>
    /\ UNCHANGED rateVars

\* scrape_with_pagination is entered: all_data = [], current_url = base_url,
\* page_count = 0
CrawlCall ==
    /\ pc = "crawl_call"
    /\ all_data' = <<>>
    /\ current_url' = url
    /\ page_count' = 0
    /\ steps' = Append(steps, "scrape_with_pagination")
    /\ pc' = "crawl"
    /\ UNCHANGED <<url, strategy, strategy_arg, max_pages, scrape_id, validation,
                   detection, raw_data, df, files, result, visited, links,
                   stop_reason>>
    /\ UNCHANGED <<records_rev, link_rev>>
    /\ UNCHANGED <<cleanVars, docVars, apiVars, fileVars>>
    /\ UNCHANGED rateVars

\* the loop condition is false: return all_data
CrawlReturn ==
    /\ pc = "crawl"
    /\ ~loop_continues(current_url, page_count, max_pages)
    /\ raw_data' = all_data
    /\ stop_reason' = IF current_url = 0 /\ page_count > 0 THEN "no_next" ELSE "budget"
    /\ pc' = "crawled"
    /\ UNCHANGED <<url, strategy, strategy_arg, max_pages, scrape_id, validation,
                   detection, current_url, page_count, all_data, df, files, result,
                   steps, visited, links>>
    /\ UNCHANGED <<records_rev, link_rev>>
    /\ UNCHANGED <<cleanVars, docVars, apiVars, fileVars>>
    /\ UNCHANGED rateVars

\* one page is scraped under the strategy: the fetch fails, the selector
\* matches nothing (ValueError), or the page's records are appended; a
\* strategy of another type (or without a type: KeyError) leaves the loop
CrawlExtract ==
    /\ pc = "crawl"
    /\ loop_continues(current_url, page_count, max_pages)
    /\ IF ~supported(strategy)
       THEN /\ raw_data' = soft_stop(all_data)
            /\ stop_reason' = "unsupported"
            /\ pc' = "crawled"
            /\ UNCHANGED <<all_data, visited, records_rev>>
       ELSE \E outcome \in {"ok", "fetch_error", "no_match"} :
               IF outcome = "ok"
               THEN /\ all_data' = extend(all_data,
                                          IF strategy = "table"
                                          THEN scrape_table_data(current_url)
                                          ELSE scrape_list_items(current_url))
                    /\ visited' = Append(visited, current_url)
                    /\ \E rev \in Revisions : records_rev' = rev
                    /\ pc' = "link"
                    /\ UNCHANGED <<raw_data, stop_reason>>
               ELSE /\ raw_data' = soft_stop(all_data)
                    /\ stop_reason' = outcome
                    /\ pc' = "crawled"
                    /\ UNCHANGED <<all_data, visited, records_rev>>
    /\ UNCHANGED <<url, strategy, strategy_arg, max_pages, scrape_id, validation,
                   detection, current_url, page_count, df, files, result, steps,
                   links, link_rev>>
    /\ UNCHANGED <<cleanVars, docVars, apiVars, fileVars>>
    /\ UNCHANGED rateVars

\* the page is fetched again for its 'next' link (a second session.get of
\* current_url, answered by the server on its own): the fetch fails, or
\* current_url becomes the link found (0: none) and page_count grows by one
CrawlNext ==
    /\ pc = "link"
    /\ \/ /\ raw_data' = soft_stop(all_data)
          /\ stop_reason' = "link_error"
          /\ pc' = "crawled"
          /\ UNCHANGED <<current_url, page_count, links, link_rev>>
       \/ \E next_url \in 0..NPages, rev \in Revisions :
             /\ current_url' = next_url
             /\ links' = Append(links, next_url)
             /\ link_rev' = rev
             /\ page_count' = page_count + 1
             /\ pc' = "crawl"
             /\ UNCHANGED <<raw_data, stop_reason>>
    /\ UNCHANGED <<url, strategy, strategy_arg, max_pages, scrape_id, validation,
                   detection, all_data, df, files, result, steps, visited,
                   records_rev>>
    /\ UNCHANGED <<cleanVars, docVars, apiVars, fileVars>>
    /\ UNCHANGED rateVars

\* back in full_scrape: no record is a failure, otherwise the records are
\* cleaned
Process ==
    /\ pc = "crawled"
    /\ IF raw_data = <<>>
       THEN /\ result' = failure("No data extracted", scrape_id)
            /\ pc' = "returned"
            /\ UNCHANGED <<df, steps>>
       ELSE /\ df' = clean_and_process_data(raw_data)
            /\ steps' = Append(steps, "clean_and_process_data")
            /\ pc' = "save"
            /\ UNCHANGED result
    /\ UNCHANGED <<url, strategy, strategy_arg, max_pages, scrape_id, validation,
                   detection, current_url, page_count, all_data, raw_data, files,
                   visited, links, stop_reason>>
    /\ UNCHANGED <<records_rev, link_rev>>
    /\ UNCHANGED <<cleanVars, docVars, apiVars, fileVars>>
    /\ UNCHANGED rateVars

\* the CSV, the JSON and the metadata file are written in this order; an
\* OSError at any of them is caught by the except clause of full_scrape
Save ==
    /\ pc = "save"
    /\ steps' = Append(steps, "save")
    /\ \E written \in 0..3 :
          /\ files' = {<<scrape_id, kind>> :
                          kind \in {k \in {"csv", "json", "metadata"} :
                                      \/ k = "csv" /\ written >= 1
                                      \/ k = "json" /\ written >= 2
                                      \/ k = "metadata" /\ written >= 3}}
          /\ IF written = 3
             THEN result' = success(scrape_id, df) /\ pc' = "returned"
             ELSE LET handled == on_exception("No space left on device", scrape_id)
                  IN  result' = handled.result /\ pc' = handled.pc
    /\ UNCHANGED <<url, strategy, strategy_arg, max_pages, scrape_id, validation,
                   detection, current_url, page_count, all_data, raw_data, df,
                   visited, links, stop_reason>>
    /\ UNCHANGED <<records_rev, link_rev>>
    /\ UNCHANGED <<cleanVars, docVars, apiVars, fileVars>>
    /\ UNCHANGED rateVars

Next ==
    \/ GenerateId
    \/ ValidateUrl
    \/ Detect
    \/ CrawlCall
    \/ CrawlExtract
    \/ CrawlNext
    \/ CrawlReturn
    \/ Process
    \/ Save

Spec == Init /\ [][Next]_vars

----------------------------------------------------------------------------
(* The two cleaning pipelines applied to one list of raw records.          *)

MaxRecs == 2

t_unit_price == <<"U", "n", "i", "t", " ", "P", "r", "i", "c", "e">>

\* the cell texts the inputs are built from
CellTexts ==
    << <<>>, <<" ", "A", " ">>, <<"$", "1">>, <<"1", "-", "2">>, t_None,
       t_https \o <<"x">> >>

\* the column names of one input
ColumnChoices == {<<t_name, t_price>>, <<t_name, t_unit_price>>, <<t_name, t_link>>}

\* the record with, for every column j, no key (pick[j] = 0) or the text
\* CellTexts[pick[j]]
mkRecord(cols, pick) ==
    LET present == SelectSeq([j \in 1..Len(cols) |-> j], LAMBDA j : pick[j] # 0)
    IN  [k \in 1..Len(present) |-> <<cols[present[k]], Str(CellTexts[pick[present[k]]])>>]

\* the lists of at most maxrecs records over one choice of columns
RawInputs(maxrecs) ==
    UNION {UNION {{[i \in 1..n |-> mkRecord(cols, picks[i])] :
                        picks \in [1..n -> [1..Len(cols) -> 0..Len(CellTexts)]]} :
                    n \in 0..maxrecs} :
            cols \in ColumnChoices}

ScrapeIdle ==
    /\ pc = "idle"
    /\ url = 1
    /\ strategy_arg = "None"
    /\ strategy = "None"
    /\ max_pages = 0
    /\ scrape_id = ""
    /\ validation = [valid |-> FALSE, error |-> ""]
    /\ detection = [success |-> FALSE, strategies |-> 0, recommended |-> "None"]
    /\ current_url = 0
    /\ page_count = 0
    /\ all_data = <<>>
    /\ raw_data = <<>>
    /\ df = EmptyFrame
    /\ files = {}
    /\ result = NoResult
    /\ steps = <<>>
    /\ visited = <<>>
    /\ links = <<>>
    /\ stop_reason = "none"
    /\ records_rev = "none"
    /\ link_rev = "none"

InitClean ==
    /\ ScrapeIdle
    /\ DocIdle
    /\ ApiDirect
    /\ FilesIdle
    /\ RateIdle
    /\ cstage = "input"
    /\ cx \in RawInputs(MaxRecs)
    /\ dp1 = EmptyFrame
    /\ dp2 = EmptyFrame
    /\ sc1 = EmptyFrame

\* dp1 = DataProcessor.clean_data(cx)
CleanData ==
    /\ cstage = "input"
    /\ dp1' = clean_data(cx)
    /\ cstage' = "cleaned"
    /\ UNCHANGED <<cx, dp2, sc1>>
    /\ UNCHANGED <<scrapeVars, docVars, apiVars, fileVars>>
    /\ UNCHANGED rateVars

\* dp2 = DataProcessor.clean_data(the records of dp1)
CleanAgain ==
    /\ cstage = "cleaned"
    /\ dp2' = clean_data(to_records(dp1))
    /\ cstage' = "recleaned"
    /\ UNCHANGED <<cx, dp1, sc1>>
    /\ UNCHANGED <<scrapeVars, docVars, apiVars, fileVars>>
    /\ UNCHANGED rateVars

\* sc1 = UniversalScraper.clean_and_process_data(cx)
CleanAndProcess ==
    /\ cstage = "recleaned"
    /\ sc1' = clean_and_process_data(cx)
    /\ cstage' = "done"
    /\ UNCHANGED <<cx, dp1, dp2>>
    /\ UNCHANGED <<scrapeVars, docVars, apiVars, fileVars>>
    /\ UNCHANGED rateVars

NextClean ==
    \/ CleanData
    \/ CleanAgain
    \/ CleanAndProcess

SpecClean == InitClean /\ [][NextClean]_vars

----------------------------------------------------------------------------
(* The scraper's methods validate_url, detect_data_structure and           *)
(* scrape_table_data, each called alone on one response.                   *)

MaxTables == 2

MaxItems == 4

t_product_item == t_product \o <<"-">> \o t_item
t_Card == <<"C", "a", "r", "d">>
t_row == <<"r", "o", "w">>
t_box == <<"b", "o", "x">>
t_Test == <<"T", "e", "s", "t">>

\* the kinds of element a document is made of: the product-item div of the
\* tests, a list item whose class needs lowering, a div outside the
\* vocabulary, a section with two class tokens, an element without class
ElementKinds ==
    {[tag |-> "div", class |-> <<t_product_item>>, text |-> <<"P", "1">>],
     [tag |-> "li", class |-> <<t_Card>>, text |-> <<"C">>],
     [tag |-> "div", class |-> <<t_row>>, text |-> <<>>],
     [tag |-> "section", class |-> <<t_box, t_entry>>, text |-> <<"E">>],
     [tag |-> "span", class |-> <<>>, text |-> <<"s">>]}

Rep(e, n) == [i \in 1..n |-> e]

\* two runs of elements: the first absent or of 3..maxitems elements, the
\* second absent or of maxitems elements
ElementLists(maxitems) ==
    {Rep(e1, n1) \o Rep(e2, n2) :
        e1 \in ElementKinds, e2 \in ElementKinds,
        n1 \in {0} \cup 3..maxitems, n2 \in {0, maxitems}}

tr(cells) == [cells |-> cells, href |-> <<>>]

\* the tables: without rows; a header row alone; the table of the tests with
\* padded cells; rows shorter and longer than the header; two header cells
\* with the same label and a row with a link
TableChoices ==
    {[rows |-> <<>>],
     [rows |-> <<tr(<<t_name, t_Price>>)>>],
     [rows |-> <<tr(<<t_name, t_Price>>),
                 tr(<< <<" ", "A", " ">>, <<"$", "1", "0">> >>),
                 tr(<< <<"B">>, <<"$", "2", "0", "\n">> >>)>>],
     [rows |-> <<tr(<<t_name>>), tr(<< <<"A">>, <<"x">> >>), tr(<<>>)>>],
     [rows |-> <<tr(<<t_name, <<" ">> \o t_name>>),
                 [cells |-> << <<"A">>, <<"B">> >>, href |-> t_https \o <<"x">>]>>]}

TableLists(maxtables) == UNION {[1..n -> TableChoices] : n \in 0..maxtables}

\* documents with more tables than detection looks at, each table a header
\* row alone or the table of the tests
LongTableLists(maxtables) ==
    [1..(maxtables + 2) ->
        {[rows |-> <<tr(<<t_name, t_Price>>)>>],
         [rows |-> <<tr(<<t_name, t_Price>>),
                     tr(<< <<" ", "A", " ">>, <<"$", "1", "0">> >>),
                     tr(<< <<"B">>, <<"$", "2", "0", "\n">> >>)>>]}]

\* where n tables sit: all of them children of the body (parent 0); each in
\* an element of its own (a div, or a cell of the table before it); the
\* second one alone in a div between its siblings
ParentChoices(n) ==
    {[i \in 1..n |-> 0], [i \in 1..n |-> i], [i \in 1..n |-> IF i = 2 THEN 1 ELSE 0]}

Bodies(maxtables, maxitems) ==
    {[tables |-> ts, parents |-> [i \in 1..Len(ts) |-> 0], elems |-> es,
      lists |-> h[1], title |-> h[2]] :
        ts \in TableLists(maxtables), es \in ElementLists(maxitems),
        h \in {<<0, <<>>>>, <<1, t_Test>>}}
    \cup {[tables |-> ts, parents |-> ps, elems |-> <<>>, lists |-> 0,
           title |-> t_Test] :
            ts \in LongTableLists(maxtables), ps \in ParentChoices(maxtables + 2)}

\* the body of an error page: empty, or with a table and repeated elements
ErrorBodies ==
    {EmptyDoc,
     [tables |-> <<[rows |-> <<tr(<<t_name>>), tr(<< <<"A">> >>)>>]>>,
      parents |-> <<0>>,
      elems |-> Rep([tag |-> "div", class |-> <<t_product_item>>, text |-> <<>>], 4),
      lists |-> 0, title |-> <<>>]}

\* the answers of session.get: the fetch raised, a 200 with any body, or
\* another status with an error page
Responses(maxtables, maxitems) ==
    {NoResponse}
    \cup {[raised |-> FALSE, status |-> 200, body |-> b] :
            b \in Bodies(maxtables, maxitems)}
    \cup {[raised |-> FALSE, status |-> st, body |-> b] :
            st \in {204, 404, 500}, b \in ErrorBodies}

InitDoc ==
    /\ ScrapeIdle
    /\ CleanIdle
    /\ ApiDirect
    /\ FilesIdle
    /\ RateIdle
    /\ response \in Responses(MaxTables, MaxItems)
    /\ dstage = "fetched"
    /\ vresult = [valid |-> FALSE, error |-> ""]
    /\ dresult = [success |-> FALSE, error |-> ""]
    /\ table_result = [raised |-> FALSE, data |-> <<>>]
    /\ applied = NoStrategy
    /\ selected = <<>>

\* result = await scraper.validate_url(url)
ValidateCall ==
    /\ dstage = "fetched"
    /\ vresult' = validate_url(response)
    /\ dstage' = "validated"
    /\ UNCHANGED <<response, dresult, table_result, applied, selected>>
    /\ UNCHANGED <<scrapeVars, cleanVars, apiVars, fileVars>>
    /\ UNCHANGED rateVars

\* result = await scraper.detect_data_structure(url)
DetectCall ==
    /\ dstage = "fetched"
    /\ dresult' = detect_data_structure(response)
    /\ dstage' = "detected"
    /\ UNCHANGED <<response, vresult, table_result, applied, selected>>
    /\ UNCHANGED <<scrapeVars, cleanVars, apiVars, fileVars>>
    /\ UNCHANGED rateVars

\* data = await scraper.scrape_table_data(url)
ScrapeTableCall ==
    /\ dstage = "fetched"
    /\ table_result' = scrape_table_data_default(response)
    /\ dstage' = "scraped"
    /\ UNCHANGED <<response, vresult, dresult, applied, selected>>
    /\ UNCHANGED <<scrapeVars, cleanVars, apiVars, fileVars>>
    /\ UNCHANGED rateVars

\* the extractor called, as scrape_with_pagination calls it, with the
\* selector of a candidate that detection returned for the same document
ScrapeStrategyCall ==
    /\ dstage = "detected"
    /\ dresult.success
    /\ \E k \in 1..Len(dresult.strategies) :
          LET s == dresult.strategies[k]
          IN  /\ s.type \in {"table", "list_items"}
              /\ applied' = s
              /\ selected' = select(response.body, s.selector)
              /\ table_result' = IF s.type = "table"
                                 THEN scrape_table_data_at(response, s.selector)
                                 ELSE scrape_list_items_at(response, s.selector)
    /\ dstage' = "extracted"
    /\ UNCHANGED <<response, vresult, dresult>>
    /\ UNCHANGED <<scrapeVars, cleanVars, apiVars, fileVars>>
    /\ UNCHANGED rateVars

NextDoc ==
    \/ ValidateCall
    \/ DetectCall
    \/ ScrapeTableCall
    \/ ScrapeStrategyCall

SpecDoc == InitDoc /\ [][NextDoc]_vars

----------------------------------------------------------------------------
(* The endpoints of scraping.py: each request constructs a scraper, enters *)
(* its context (the HTTP session is created), runs one method in the body  *)
(* of the async with block, and leaves the context (the session is closed) *)
(* before the answer is sent.                                              *)

MAX_PAGES == 50

FallbackMaxPages == 10

InitMaxPages == 50

ReqSpan == 2

\* Optional[int]: null, or a value
Absent == <<>>

Given(n) == <<n>>

\* min(request.max_pages or 10, settings.MAX_PAGES): null and 0 are falsy
page_budget(requested) ==
    Min(IF requested = Absent \/ requested = Given(0) THEN FallbackMaxPages
        ELSE requested[1],
        MAX_PAGES)

\* __aenter__: self.session = aiohttp.ClientSession(...)
aenter(s) == "open"

\* a context exit that leaves the session as it is
aexit_leak(s) == s

\* __aexit__: if self.session: await self.session.close()
aexit(s) == IF s # "None" THEN "closed" ELSE s

Endpoints == {"validate-url", "detect-structure", "scrape"}

\* one request: its endpoint, its body (url, strategy, max_pages), and for
\* the two single-fetch endpoints the answer the URL will give
InitApi ==
    /\ endpoint \in Endpoints
    /\ pc = "idle"
    /\ url \in (IF endpoint = "scrape" THEN Pages ELSE {1})
    /\ strategy_arg \in (IF endpoint = "scrape" THEN StrategyArgs ELSE {"None"})
    /\ strategy = strategy_arg
    /\ request_max_pages \in
            (IF endpoint = "scrape"
             THEN {Absent} \cup {Given(n) : n \in (0 - ReqSpan)..(MAX_PAGES + ReqSpan)}
             ELSE {Absent})
    /\ response \in (IF endpoint = "scrape" THEN {NoResponse} ELSE Responses(1, 3))
    /\ max_pages = 0
    /\ scrape_id = ""
    /\ validation = [valid |-> FALSE, error |-> ""]
    /\ detection = [success |-> FALSE, strategies |-> 0, recommended |-> "None"]
    /\ current_url = 0
    /\ page_count = 0
    /\ all_data = <<>>
    /\ raw_data = <<>>
    /\ df = EmptyFrame
    /\ files = {}
    /\ result = NoResult
    /\ steps = <<>>
    /\ visited = <<>>
    /\ links = <<>>
    /\ stop_reason = "none"
    /\ records_rev = "none"
    /\ link_rev = "none"
    /\ dstage = "idle"
    /\ vresult = [valid |-> FALSE, error |-> ""]
    /\ dresult = [success |-> FALSE, error |-> ""]
    /\ table_result = [raised |-> FALSE, data |-> <<>>]
    /\ applied = NoStrategy
    /\ selected = <<>>
    /\ budget = 0
    /\ session = "None"
    /\ apc = "request"
    /\ body_end = "none"
    /\ http_status = 0
    /\ CleanIdle
    /\ FilesIdle
    /\ RateIdle

\* scrape_url: max_pages = min(request.max_pages or 10, settings.MAX_PAGES)
ApiScrapeBudget ==
    /\ endpoint = "scrape"
    /\ apc = "request"
    /\ budget' = page_budget(request_max_pages)
    /\ apc' = "construct"
    /\ UNCHANGED <<endpoint, request_max_pages, session, body_end, http_status>>
    /\ UNCHANGED <<scrapeVars, cleanVars, docVars, fileVars>>
    /\ UNCHANGED rateVars

\* async with UniversalScraper(...) as scraper: the scraper is constructed
\* (with the budget for /scrape, with the default of __init__ otherwise) and
\* its session created; crawls are followed for budgets up to MaxBudget
ApiEnter ==
    /\ \/ endpoint = "scrape" /\ apc = "construct" /\ budget <= MaxBudget
       \/ endpoint # "scrape" /\ apc = "request"
    /\ max_pages' = IF endpoint = "scrape" THEN budget ELSE InitMaxPages
    /\ session' = aenter(session)
    /\ pc' = IF endpoint = "scrape" THEN "call" ELSE pc
    /\ apc' = "body"
    /\ UNCHANGED <<endpoint, request_max_pages, budget, body_end, http_status>>
    /\ UNCHANGED <<url, strategy, strategy_arg, scrape_id, validation, detection,
                   current_url, page_count, all_data, raw_data, df, files, result,
                   steps, visited, links, stop_reason, records_rev, link_rev>>
    /\ UNCHANGED <<cleanVars, docVars, fileVars>>
    /\ UNCHANGED rateVars

\* validate_url endpoint: result = await scraper.validate_url(url)
ApiValidate ==
    /\ endpoint = "validate-url"
    /\ apc = "body"
    /\ vresult' = validate_url(response)
    /\ dstage' = "validated"
    /\ apc' = "respond"
    /\ UNCHANGED <<response, dresult, table_result, applied, selected>>
    /\ UNCHANGED <<endpoint, request_max_pages, budget, session, body_end, http_status>>
    /\ UNCHANGED <<scrapeVars, cleanVars, fileVars>>
    /\ UNCHANGED rateVars

\* detect_data_structure endpoint: result = await scraper.detect_data_structure(url)
ApiDetect ==
    /\ endpoint = "detect-structure"
    /\ apc = "body"
    /\ dresult' = detect_data_structure(response)
    /\ dstage' = "detected"
    /\ apc' = "respond"
    /\ UNCHANGED <<response, vresult, table_result, applied, selected>>
    /\ UNCHANGED <<endpoint, request_max_pages, budget, session, body_end, http_status>>
    /\ UNCHANGED <<scrapeVars, cleanVars, fileVars>>
    /\ UNCHANGED rateVars

\* the rest of the body builds the response model from the result (for
\* /scrape once full_scrape has returned) and returns it, or an exception
\* leaves the block
ApiRespond ==
    /\ \/ apc = "respond"
       \/ endpoint = "scrape" /\ apc = "body" /\ pc = "returned"
    /\ \E e \in {"return", "raise"} : body_end' = e
    /\ apc' = "exit"
    /\ UNCHANGED <<endpoint, request_max_pages, budget, session, http_status>>
    /\ UNCHANGED <<scrapeVars, cleanVars, docVars, fileVars>>
    /\ UNCHANGED rateVars

\* the block is left through __aexit__ on a return and on an exception; the
\* answer is the response model, or the HTTPException(500) of the except clause
ApiExit ==
    /\ apc = "exit"
    /\ session' = aexit(session)
    /\ http_status' = IF body_end = "return" THEN 200 ELSE 500
    /\ apc' = "done"
    /\ UNCHANGED <<endpoint, request_max_pages, budget, body_end>>
    /\ UNCHANGED <<scrapeVars, cleanVars, docVars, fileVars>>
    /\ UNCHANGED rateVars

NextApi ==
    \/ ApiScrapeBudget
    \/ ApiEnter
    \/ ApiValidate
    \/ ApiDetect
    \/ ApiRespond
    \/ ApiExit
    \/ Next

SpecApi == InitApi /\ [][NextApi]_vars

----------------------------------------------------------------------------
(* The endpoints of files.py over the directory data/processed.  A file    *)
(* name is the text full_scrape gave it: scrape_<id>_<timestamp><ext>.     *)

t_scrape_ == <<"s", "c", "r", "a", "p", "e", "_">>
ext_csv == <<".", "c", "s", "v">>
ext_json == <<".", "j", "s", "o", "n">>
ext_metadata == <<"_", "m", "e", "t", "a", "d", "a", "t", "a">> \o ext_json
t_timestamp == <<"2", "0", "2", "4">>

endswith(s, t) == Len(s) >= Len(t) /\ SubSeq(s, Len(s) - Len(t) + 1, Len(s)) = t

\* filename = f"scrape_{scrape_id}_{timestamp}", then the extension
filename(id, ext) == t_scrape_ \o id \o <<"_">> \o t_timestamp \o ext

\* the identifiers of the scrapes that were run (uuid4 texts, of one length)
StoredIds == {<<"a", "1">>, <<"a", "2">>}

\* the identifiers a request may carry: those, the beginning of one of them,
\* and an identifier no scrape ever had
RequestIds == StoredIds \cup {<<"a">>, <<"z", "9">>}

\* the files a full_scrape wrote for id before it returned or failed: the
\* CSV, then the JSON, then the metadata
written_files(id, n) ==
    {filename(id, ext) :
        ext \in {e \in {ext_csv, ext_json, ext_metadata} :
                    \/ e = ext_csv /\ n >= 1
                    \/ e = ext_json /\ n >= 2
                    \/ e = ext_metadata /\ n >= 3}}

Stores == {UNION {written_files(id, w[id]) : id \in StoredIds} : w \in [StoredIds -> 0..3]}

FileRequests ==
    {[op |-> "download", id |-> id, file_type |-> t] :
        id \in RequestIds, t \in {"csv", "json", "xml"}}
    \cup {[op |-> o, id |-> id] :
            o \in {"preview", "delete", "delete_scrape_files"}, id \in RequestIds}

\* f.startswith(f"scrape_{scrape_id}") over os.listdir("data/processed")
listed(dir, id) == {f \in dir : startswith(f, t_scrape_ \o id)}

\* except Exception as e: raise HTTPException(status_code=500, ...), which
\* also catches the HTTPException(404) raised inside the try block
except_clause(status) == 500

InitFiles ==
    /\ ScrapeIdle
    /\ CleanIdle
    /\ DocIdle
    /\ RateIdle
    /\ endpoint = "files"
    /\ request_max_pages = Absent
    /\ budget = 0
    /\ session = "None"
    /\ apc = "idle"
    /\ body_end = "none"
    /\ http_status = 0
    /\ store \in Stores
    /\ store_before = store
    /\ file_request \in FileRequests
    /\ file_response = [status |-> 0]
    /\ fstage = "request"

\* GET /download/{scrape_id}/{file_type}: files[0] is the first match in the
\* order of the directory listing, which is any order
download_file ==
    /\ fstage = "request"
    /\ file_request.op = "download"
    /\ IF file_request.file_type \notin {"csv", "json"}
       THEN file_response' = [status |-> 400]
       ELSE LET ext == IF file_request.file_type = "csv" THEN ext_csv ELSE ext_json
                found == {f \in listed(store, file_request.id) : endswith(f, ext)}
            IN  IF found = {}
                THEN file_response' = [status |-> except_clause(404)]
                ELSE \E f \in found : file_response' = [status |-> 200, path |-> f]
    /\ fstage' = "answered"
    /\ UNCHANGED <<store, store_before, file_request>>
    /\ UNCHANGED <<scrapeVars, cleanVars, docVars, apiVars>>
    /\ UNCHANGED rateVars

\* GET /preview/{scrape_id}
preview_data ==
    /\ fstage = "request"
    /\ file_request.op = "preview"
    /\ LET found == {f \in listed(store, file_request.id) : endswith(f, ext_csv)}
       IN  IF found = {}
           THEN file_response' = [status |-> except_clause(404)]
           ELSE \E f \in found : file_response' = [status |-> 200, path |-> f]
    /\ fstage' = "answered"
    /\ UNCHANGED <<store, store_before, file_request>>
    /\ UNCHANGED <<scrapeVars, cleanVars, docVars, apiVars>>
    /\ UNCHANGED rateVars

\* DELETE /data/{scrape_id}
delete_scraped_data ==
    /\ fstage = "request"
    /\ file_request.op = "delete"
    /\ LET files_to_delete == listed(store, file_request.id)
       IN  IF files_to_delete = {}
           THEN /\ file_response' = [status |-> except_clause(404)]
                /\ UNCHANGED store
           ELSE /\ store' = store \ files_to_delete
                /\ file_response' = [status |-> 200, deleted_files |-> files_to_delete]
    /\ fstage' = "answered"
    /\ UNCHANGED <<store_before, file_request>>
    /\ UNCHANGED <<scrapeVars, cleanVars, docVars, apiVars>>
    /\ UNCHANGED rateVars

\* self.processed_dir.glob(f"scrape_{scrape_id}*"): the files whose name
\* begins with scrape_<id> (an identifier holds no glob wildcard)
find_files_by_scrape_id(dir, id) == {f \in dir : startswith(f, t_scrape_ \o id)}

\* FileManager.delete_scrape_files(scrape_id): every file found is removed
\* and its name returned
delete_scrape_files ==
    /\ fstage = "request"
    /\ file_request.op = "delete_scrape_files"
    /\ store' = store \ find_files_by_scrape_id(store, file_request.id)
    /\ file_response' = [deleted_files |-> find_files_by_scrape_id(store, file_request.id)]
    /\ fstage' = "returned"
    /\ UNCHANGED <<store_before, file_request>>
    /\ UNCHANGED <<scrapeVars, cleanVars, docVars, apiVars>>
    /\ UNCHANGED rateVars

NextFiles ==
    \/ download_file
    \/ preview_data
    \/ delete_scraped_data
    \/ delete_scrape_files

SpecFiles == InitFiles /\ [][NextFiles]_vars

----------------------------------------------------------------------------
(* The rate limiter of deps.py: one RateLimiter object, its is_allowed     *)
(* method called with the time of the clock, which never goes back.        *)

MaxCalls == 11

\* self.limits.get(endpoint_type, {"max_requests": 30, "window": 60})
limit_config(endpoint_type) ==
    CASE endpoint_type = "scraping" -> [max_requests |-> 10, window |-> 60]
      [] endpoint_type = "download" -> [max_requests |-> 50, window |-> 60]
      [] endpoint_type = "validation" -> [max_requests |-> 20, window |-> 60]
      [] OTHER -> [max_requests |-> 30, window |-> 60]

\* the clock advances by one window between bursts of calls, so that two
\* calls are at the same time, exactly one window apart (the older one still
\* counts) or further apart (it counts no more)
TickSeconds == limit_config("scraping").window

MaxTime == 2 * TickSeconds

\* while client_requests and client_requests[0] < now - window: popleft()
RECURSIVE clean_old_requests(_, _)
clean_old_requests(client_requests, cutoff) ==
    IF client_requests # <<>> /\ client_requests[1] < cutoff
    THEN clean_old_requests(Tail(client_requests), cutoff)
    ELSE client_requests

\* a limit that lets one more request through
limit_exceeded_late(n, max_requests) == n > max_requests

\* len(client_requests) >= limit_config["max_requests"]
limit_exceeded(n, max_requests) == n >= max_requests

\* RateLimiter.is_allowed(client_ip, endpoint_type) at time now: what it
\* returns and the requests it leaves.  The deque is the client's, whatever
\* the endpoint type
is_allowed(requests, client_ip, endpoint_type, now) ==
    LET cfg == limit_config(endpoint_type)
        client_requests == clean_old_requests(requests[client_ip], now - cfg.window)
    IN  IF limit_exceeded(Len(client_requests), cfg.max_requests)
        THEN [allowed |-> FALSE,
              requests |-> [requests EXCEPT ![client_ip] = client_requests]]
        ELSE [allowed |-> TRUE,
              requests |-> [requests EXCEPT ![client_ip] = Append(client_requests, now)]]

\* the number of is_allowed calls that returned True so far
CallsAllowed ==
    LET RECURSIVE total(_)
        total(S) == IF S = {} THEN 0
                    ELSE LET x == CHOOSE x \in S : TRUE
                         IN  Len(rl_allowed[x[1]][x[2]]) + total(S \ {x})
    IN  total(ClientIps \X EndpointTypes)

InitRate ==
    /\ ScrapeIdle
    /\ CleanIdle
    /\ DocIdle
    /\ ApiDirect
    /\ FilesIdle
    /\ RateIdle

\* rate_limiter.is_allowed(client_ip, endpoint_type)
IsAllowedCall ==
    /\ CallsAllowed < MaxCalls
    /\ \E client_ip \in ClientIps, endpoint_type \in EndpointTypes :
          LET r == is_allowed(rl_requests, client_ip, endpoint_type, rl_now)
          IN  /\ rl_requests' = r.requests
              /\ rl_last' = [client_ip |-> client_ip, endpoint_type |-> endpoint_type,
                             time |-> rl_now, allowed |-> r.allowed]
              /\ rl_allowed' = IF r.allowed
                               THEN [rl_allowed EXCEPT ![client_ip][endpoint_type] =
                                                            Append(@, rl_now)]
                               ELSE rl_allowed
    /\ UNCHANGED <<rl_now, sent, answer>>
    /\ UNCHANGED <<scrapeVars, cleanVars, docVars, apiVars, fileVars>>

\* time passes
Tick ==
    /\ rl_now < MaxTime
    /\ rl_now' = rl_now + TickSeconds
    /\ UNCHANGED <<rl_requests, rl_last, rl_allowed, sent, answer>>
    /\ UNCHANGED <<scrapeVars, cleanVars, docVars, apiVars, fileVars>>

NextRate ==
    \/ IsAllowedCall
    \/ Tick

SpecRate == InitRate /\ [][NextRate]_vars

----------------------------------------------------------------------------
(* The routes of the API as main.py and the routers declare them, and the  *)
(* requests of one client to POST /api/v1/validate-url.                    *)

MaxSent == 22

\* the rate-limit dependencies a route declares: the decorators of
\* scraping.py and files.py and the include_router calls of main.py name
\* none (validation_rate_limit and the others are defined in deps.py and
\* used nowhere)
route_dependencies(route) == {}

\* the statuses the validate-url handler answers with: its result, or the
\* HTTPException(500) of its except clause
ValidateStatuses == {200, 500}

InitRoutes ==
    /\ ScrapeIdle
    /\ CleanIdle
    /\ DocIdle
    /\ ApiDirect
    /\ FilesIdle
    /\ RateIdle

\* POST /api/v1/validate-url from client_ip: the dependencies of the route
\* run first (check_rate_limit raises HTTPException(429) when is_allowed
\* returns False), then the handler
ValidateUrlRequest ==
    /\ \E client_ip \in ClientIps :
          /\ Len(sent[client_ip]) < MaxSent
          /\ sent' = [sent EXCEPT ![client_ip] = Append(@, rl_now)]
          /\ IF "validation" \in route_dependencies("validate-url")
             THEN LET r == is_allowed(rl_requests, client_ip, "validation", rl_now)
                  IN  /\ rl_requests' = r.requests
                      /\ rl_last' = [client_ip |-> client_ip,
                                     endpoint_type |-> "validation",
                                     time |-> rl_now, allowed |-> r.allowed]
                      /\ rl_allowed' = IF r.allowed
                                       THEN [rl_allowed EXCEPT
                                                ![client_ip]["validation"] =
                                                    Append(@, rl_now)]
                                       ELSE rl_allowed
                      /\ IF r.allowed
                         THEN \E st \in ValidateStatuses : answer' = st
                         ELSE answer' = 429
             ELSE /\ \E st \in ValidateStatuses : answer' = st
                  /\ UNCHANGED <<rl_requests, rl_last, rl_allowed>>
    /\ UNCHANGED rl_now
    /\ UNCHANGED <<scrapeVars, cleanVars, docVars, apiVars, fileVars>>

NextRoutes ==
    \/ ValidateUrlRequest
    \/ Tick

SpecRoutes == InitRoutes /\ [][NextRoutes]_vars

----------------------------------------------------------------------------
(* Properties of the crawl and of full_scrape (specification Spec)         *)

Has(step) == \E i \in 1..Len(steps) : steps[i] = step

\* the crawl has returned to full_scrape
CrawlDone == pc \in {"crawled", "save", "returned"} /\ Has("scrape_with_pagination")

\* the records of the given pages, page after page, under strategy type t
RECURSIVE RecordsOf(_, _)
RecordsOf(pages, t) ==
    IF pages = <<>> THEN <<>>
    ELSE (IF t = "table" THEN scrape_table_data(Head(pages))
          ELSE scrape_list_items(Head(pages)))
         \o RecordsOf(Tail(pages), t)

\* what is left of the crawl: two steps per page of the remaining budget
Measure ==
    CASE pc = "crawl" -> 2 * (max_pages - page_count) + 1
      [] pc = "link" -> 2 * (max_pages - page_count)
      [] OTHER -> 0

\* C1: with a strategy of type table or list_items, whatever links the pages
\* show, every step of the crawl loop strictly decreases a measure that never
\* goes below zero (so the loop terminates), and at most max_pages pages are
\* extracted.
C1_CrawlBounded ==
    [][(pc \in {"crawl", "link"} /\ strategy \in {"table", "list_items"})
        => /\ Measure' < Measure
           /\ Measure' >= 0
           /\ Len(visited') <= max_pages
           /\ page_count' <= max_pages]_vars

\* C1 witness: the budget ended a crawl of two or more pages whose last page
\* still showed a next link
C1_Witness ==
    /\ pc = "crawled"
    /\ stop_reason = "budget"
    /\ current_url # 0
    /\ max_pages >= 2
    /\ Len(visited) = max_pages

\* C2: a 'next' link that resolves to the current page's own URL ends the
\* crawl: the page is never scraped twice in a row.
C2_SelfLinkStops ==
    \A i \in 1..(Len(visited) - 1) : visited[i + 1] # visited[i]

ObservedChain(n) ==
    /\ url = 1
    /\ Len(links) <= n
    /\ \A i \in 1..Len(links) : links[i] = IF i < n THEN i + 1 ELSE 0

\* C4: over a chain of n pages that all answer, a crawl with budget
\* m = max_pages returns the records of pages 1..min(m, n), page after page,
\* each page's records in row order.
C4_ChainConcatenation ==
    \A n \in 1..NPages :
        (/\ CrawlDone
         /\ stop_reason \in {"budget", "no_next"}
         /\ strategy \in {"table", "list_items"}
         /\ ObservedChain(n))
            => raw_data = RecordsOf([i \in 1..Min(max_pages, n) |-> i], strategy)

\* C4 witness: a budget of 2 over the chain of 3 table pages
C4_Witness ==
    /\ pc = "crawled"
    /\ strategy = "table"
    /\ max_pages = 2
    /\ ObservedChain(3)
    /\ links = <<2, 3>>
    /\ Len(raw_data) = 3

\* C5: full_scrape always ends by returning a result; the result carries the
\* identifier this call generated, which is not empty; a failure has
\* success = false, an error and no record count.
C5_AlwaysTaggedResult ==
    /\ pc # "raised"
    /\ pc = "returned" =>
        /\ scrape_id \in ScrapeIds
        /\ result.scrape_id = scrape_id
        /\ ~result.success =>
            /\ "error" \in DOMAIN result
            /\ "total_records" \notin DOMAIN result

\* C5 witness: the exception raised while saving came back as a failure
C5_Witness ==
    /\ pc = "returned"
    /\ Has("save")
    /\ ~result.success
    /\ result.error = "No space left on device"

\* C6: the steps of full_scrape are gated in order.  (An empty dict counts
\* as no strategy: the code tests the argument's truth value.)
C6_StepsGated ==
    /\ Has("detect_data_structure") => (validation.valid /\ ~truthy(strategy_arg))
    /\ Has("scrape_with_pagination") =>
        /\ validation.valid
        /\ \/ truthy(strategy_arg) /\ strategy = strategy_arg
              /\ ~Has("detect_data_structure")
           \/ /\ ~truthy(strategy_arg)
              /\ detection.success
              /\ detection.strategies >= 1
              /\ strategy = detection.recommended
    /\ (files # {} \/ Has("save") \/ (pc = "returned" /\ result.success)) =>
        (Has("scrape_with_pagination") /\ raw_data # <<>>)
    /\ (pc = "returned" /\ Has("validate_url") /\ ~validation.valid) =>
        (result = failure(validation.error, scrape_id) /\ steps = <<"validate_url">>)
    /\ (pc = "returned" /\ Has("detect_data_structure")
            /\ (~detection.success \/ detection.strategies = 0)) =>
        /\ result = failure("No suitable data structure detected", scrape_id)
        /\ steps = <<"validate_url", "detect_data_structure">>
    /\ (pc = "returned" /\ Has("scrape_with_pagination") /\ raw_data = <<>>) =>
        /\ result = failure("No data extracted", scrape_id)
        /\ steps[Len(steps)] = "scrape_with_pagination"
        /\ files = {}

\* C6 witness: a detected strategy was crawled, and its records saved
C6_Witness ==
    /\ pc = "returned"
    /\ result.success
    /\ strategy_arg = "None"
    /\ steps = <<"validate_url", "detect_data_structure", "scrape_with_pagination",
                 "clean_and_process_data", "save">>

\* C11: a crawl under a strategy whose type is neither table nor list_items
\* (a detected repeated_sections strategy, a dict without a type) ends at
\* once: no page is extracted, no link is followed, the record list returned
\* is empty, nothing is raised, and full_scrape answers "No data extracted".
C11_UnsupportedStopsAtOnce ==
    (Has("scrape_with_pagination") /\ strategy \notin {"table", "list_items"}) =>
        /\ visited = <<>>
        /\ links = <<>>
        /\ all_data = <<>>
        /\ page_count = 0
        /\ pc \in {"crawl", "crawled", "returned"}
        /\ CrawlDone => raw_data = <<>>
        /\ pc = "returned" => result = failure("No data extracted", scrape_id)

\* C11 witness: the crawl of a detected repeated_sections strategy left the
\* loop through the else branch
C11_Witness ==
    /\ pc = "crawled"
    /\ strategy_arg = "None"
    /\ strategy = "repeated_sections"
    /\ stop_reason = "unsupported"
    /\ max_pages >= 1

----------------------------------------------------------------------------
(* Properties of the cleaning pipelines (specification SpecClean)          *)

noNullRow(d) == \A i \in 1..Len(d.rows) : \E j \in 1..Len(d.rows[i]) : ~isna(d.rows[i][j])

\* C7: clean_data is idempotent: cleaning the records of a cleaned dataset
\* gives the same rows, in the same order, with the same values.
C7_Idempotent ==
    cstage \in {"recleaned", "done"} => sameDataset(dp2, dp1)

\* C8: neither clean_data nor clean_and_process_data returns a row whose
\* every column is null.
C8_NoNullRow ==
    /\ cstage \in {"cleaned", "recleaned", "done"} => noNullRow(dp1)
    /\ cstage = "done" => noNullRow(sc1)

\* C9: after clean_data every cell of a column whose lowercase name contains
\* a numeric indicator is a number or null.
C9_NumericOrNull ==
    cstage \in {"cleaned", "recleaned", "done"} =>
        \A j \in 1..Len(dp1.columns) :
            (\E ind \in numeric_indicators : contains(lower(dp1.columns[j]), ind))
                => \A i \in 1..Len(dp1.rows) : dp1.rows[i][j][1] \in {"num", "NaN", "None"}

\* C10: clean_and_process_data yields the same dataset as clean_data.
C10_SamePipeline ==
    cstage = "done" => sameDataset(sc1, dp1)

----------------------------------------------------------------------------
(* Properties of the scraper's methods called alone (specification SpecDoc)*)

\* scrape_table_data was called on a document whose first table has a
\* header row
TableScraped ==
    /\ dstage = "scraped"
    /\ ~response.raised
    /\ response.body.tables # <<>>
    /\ response.body.tables[1].rows # <<>>

\* the trimmed labels of the header row of a table
HeaderLabels(table) ==
    [j \in 1..Len(table.rows[1].cells) |-> strip(table.rows[1].cells[j])]

PlainPage(doc) ==
    /\ \A t \in 1..Len(doc.tables) : Len(doc.tables[t].rows) < 2
    /\ \A w \in {common_item_classes[n] : n \in 1..Len(common_item_classes)} :
        Cardinality({i \in 1..Len(doc.elems) :
                        \E k \in 1..Len(doc.elems[i].class) :
                            contains(lower(doc.elems[i].class[k]), w)}) <= 3
    /\ \A i \in 1..Len(doc.elems) :
        doc.elems[i].class # <<>> =>
            Cardinality({j \in 1..Len(doc.elems) :
                            doc.elems[j].class = doc.elems[i].class}) <= 3

\* C15: when the document was fetched, detect_data_structure succeeds; its
\* recommended_strategy is the first element of strategies whenever there is
\* one; on a plain page strategies is empty and recommended_strategy is null.
C15_RecommendedIsFirst ==
    (dstage = "detected" /\ ~response.raised) =>
        /\ dresult.success
        /\ dresult.strategies # <<>> =>
                dresult.recommended_strategy = dresult.strategies[1]
        /\ PlainPage(response.body) =>
                /\ dresult.strategies = <<>>
                /\ dresult.recommended_strategy = NoStrategy

\* C15 witness: a table candidate was recommended ahead of other candidates
C15_Witness ==
    /\ dstage = "detected"
    /\ ~response.raised
    /\ Len(dresult.strategies) >= 3
    /\ dresult.strategies[1].type = "table"
    /\ dresult.strategies[Len(dresult.strategies)].type = "repeated_sections"
    /\ dresult.recommended_strategy = dresult.strategies[1]

\* C16: a page made of exactly 4 elements of class product-item, without any
\* table, gives exactly one list_items candidate, with estimated_items = 4.
C16_OneListCandidate ==
    (/\ dstage = "detected"
     /\ ~response.raised
     /\ response.status = 200
     /\ response.body.tables = <<>>
     /\ Len(response.body.elems) = 4
     /\ \A i \in 1..4 : response.body.elems[i].class = <<t_product_item>>)
        => LET found == SelectSeq(dresult.strategies,
                                  LAMBDA c : c.type = "list_items")
           IN  /\ Len(found) = 1
               /\ found[1].estimated_items = 4

\* C17: the table candidate emitted for a table of a header row and N data
\* rows has estimated_rows = N.
C17_EstimatedDataRows ==
    (dstage = "detected" /\ ~response.raised) =>
        \A k \in 1..Len(dresult.strategies) :
            dresult.strategies[k].type = "table" =>
                dresult.strategies[k].estimated_rows =
                    Len(response.body.tables[dresult.strategies[k].selector.n].rows) - 1

\* C18: when the fetch failed (it raised, or the status is not 2xx),
\* detect_data_structure returns success = false with an error.
C18_FetchFailureIsFailure ==
    (dstage = "detected" /\ (response.raised \/ response.status \notin 200..299)) =>
        /\ ~dresult.success
        /\ "error" \in DOMAIN dresult
        /\ "strategies" \notin DOMAIN dresult

\* C19: validate_url always returns a result: valid = false with the HTTP
\* status and reason when the status is not 200, valid = false with the text
\* of the exception when the fetch raised, and valid = true, with the counts
\* of the document's structures, exactly when the status is 200.
C19_ValidateTotal ==
    dstage = "validated" =>
        /\ "valid" \in DOMAIN vresult
        /\ response.raised => vresult = [valid |-> FALSE, error |-> fetch_error]
        /\ (~response.raised /\ response.status # 200) =>
                vresult = [valid |-> FALSE, error |-> http_error(response.status)]
        /\ vresult.valid <=> (~response.raised /\ response.status = 200)
        /\ vresult.valid =>
                /\ vresult.tables_found = Len(response.body.tables)
                /\ vresult.lists_found = response.body.lists
                /\ vresult.potential_sources =
                        vresult.tables_found + vresult.lists_found
                            + vresult.structured_divs

\* C19 witness: a 204 answer, a success status other than 200, was reported
\* as invalid
C19_Witness ==
    /\ dstage = "validated"
    /\ ~response.raised
    /\ response.status = 204
    /\ vresult = [valid |-> FALSE, error |-> "HTTP 204: No Content"]

----------------------------------------------------------------------------
(* Properties of the endpoints of scraping.py (specification SpecApi)      *)

\* C12: the scraper has no session before its context is entered, an open
\* session all through the body of its request, and a closed session once
\* the context is left, whether the body returned a success, returned a
\* failure or raised; no answer is sent while the session is open.
C12_SessionScoped ==
    /\ apc \in {"request", "construct"} => session = "None"
    /\ apc \in {"body", "respond", "exit"} => session = "open"
    /\ apc = "done" => session = "closed"
    /\ http_status # 0 => session = "closed"

\* C12 witness: the body of a /scrape request raised after full_scrape had
\* returned a success; the session was closed and the answer is a 500
C12_Witness ==
    /\ endpoint = "scrape"
    /\ apc = "done"
    /\ body_end = "raise"
    /\ result.success
    /\ session = "closed"
    /\ http_status = 500

\* C13: the budget of a /scrape request never exceeds settings.MAX_PAGES,
\* never exceeds the caller's max_pages when one is given, and is at least 1.
C13_BudgetClamped ==
    (endpoint = "scrape" /\ apc # "request") =>
        /\ budget <= MAX_PAGES
        /\ request_max_pages # Absent => budget <= request_max_pages[1]
        /\ budget >= 1

----------------------------------------------------------------------------
(* Properties of the endpoints of files.py (specification SpecFiles)       *)

\* the file was written by the scrape with this identifier
belongs(f, id) == \E ext \in {ext_csv, ext_json, ext_metadata} : f = filename(id, ext)

\* C20: a download (of a csv or json), preview or delete request for a scrape
\* identifier that has no stored file is answered with 404, and every stored
\* file is left as it was.
C20_MissingIs404 ==
    (/\ fstage = "answered"
     /\ file_request.op = "download" => file_request.file_type \in {"csv", "json"}
     /\ \A f \in store_before : ~belongs(f, file_request.id))
        => /\ file_response.status = 404
           /\ store = store_before

\* C27: delete_scrape_files(id) and DELETE /data/{id} remove only files of
\* scrape id: the files of every other scrape, also of one whose identifier
\* begins with id, are left in place.
C27_DeleteOnlyOwnFiles ==
    (/\ fstage \in {"answered", "returned"}
     /\ file_request.op \in {"delete", "delete_scrape_files"}) =>
        \A f \in store_before : ~belongs(f, file_request.id) => f \in store

\* the case of C27 that the code keeps: the identifier is that of a scrape
\* that was run
C27_DeleteOfStoredId ==
    (/\ fstage \in {"answered", "returned"}
     /\ file_request.op \in {"delete", "delete_scrape_files"}
     /\ file_request.id \in StoredIds) =>
        \A f \in store_before : ~belongs(f, file_request.id) => f \in store

\* C28: when the CSV, the JSON and the metadata file of a scrape are stored,
\* GET /download/{id}/json serves the scrape's data JSON file, in whatever
\* order the directory is listed.
C28_JsonDownloadIsData ==
    (/\ fstage = "answered"
     /\ file_request.op = "download"
     /\ file_request.file_type = "json"
     /\ written_files(file_request.id, 3) \subseteq store_before) =>
        /\ file_response.status = 200
        /\ file_response.path = filename(file_request.id, ext_json)

----------------------------------------------------------------------------
(* Properties of SpecDoc: the candidates of detection and their selectors. *)

\* detection has answered for the document of the response
Detected == dstage \in {"detected", "extracted"} /\ dresult.success

\* the candidates of one type, in the order of the strategies list
CandidatesOf(type) == SelectSeq(dresult.strategies, LAMBDA s : s.type = type)

first_match(doc, s) ==
    IF s.type = "table" THEN s.selector.n
    ELSE IF s.type = "list_items"
    THEN CHOOSE i \in 1..Len(doc.elems) :
            /\ class_matches(doc.elems[i], s.selector.classes[1])
            /\ \A j \in 1..(i - 1) :
                  ~class_matches(doc.elems[j], s.selector.classes[1])
    ELSE CHOOSE i \in 1..Len(doc.elems) :
            /\ doc.elems[i].class = s.selector.classes
            /\ \A j \in 1..(i - 1) : doc.elems[j].class # s.selector.classes

\* the rank of a category in the order table, list_items, repeated_sections
category_rank(type) ==
    CASE type = "table" -> 1 [] type = "list_items" -> 2 [] OTHER -> 3

\* C24: in the strategies list the table candidates come first, then the
\* list_items candidates, then the repeated_sections candidates, and the
\* candidates of one category are in the document order of their first
\* matching element.
C24_CandidateOrder ==
    Detected =>
        \A k \in 1..Len(dresult.strategies), m \in 1..Len(dresult.strategies) :
            k < m =>
                LET a == dresult.strategies[k]
                    b == dresult.strategies[m]
                IN  /\ category_rank(a.type) <= category_rank(b.type)
                    /\ a.type = b.type =>
                          first_match(response.body, a) <= first_match(response.body, b)

\* the part of C24 that the code keeps: the order of the categories, and the
\* document order inside the table and repeated_sections categories
C24_OrderOutsideLists ==
    Detected =>
        \A k \in 1..Len(dresult.strategies), m \in 1..Len(dresult.strategies) :
            k < m =>
                LET a == dresult.strategies[k]
                    b == dresult.strategies[m]
                IN  /\ category_rank(a.type) <= category_rank(b.type)
                    /\ (a.type = b.type /\ a.type # "list_items") =>
                          first_match(response.body, a) < first_match(response.body, b)

\* C22: every list_items and repeated_sections candidate that detection
\* emits has a selector that CSS select resolves to at least 2 elements of
\* the same document, and the extractor called with a detected list_items
\* candidate on that document does not raise 'No items found'.
C22_SelectorMatchesTwo ==
    /\ Detected =>
          \A k \in 1..Len(dresult.strategies) :
              dresult.strategies[k].type \in {"list_items", "repeated_sections"}
                  => Len(select(response.body, dresult.strategies[k].selector)) >= 2
    /\ (dstage = "extracted" /\ applied.type = "list_items") => ~table_result.raised

\* the part of C22 that the code keeps: the selector of a repeated_sections
\* candidate matches at least the elements that were counted
C22_SectionSelectorMatches ==
    Detected =>
        \A k \in 1..Len(dresult.strategies) :
            dresult.strategies[k].type = "repeated_sections"
                => Len(select(response.body, dresult.strategies[k].selector))
                        >= dresult.strategies[k].estimated_items

\* C23: the selector table:nth-of-type(i) of the candidate emitted for the
\* i-th table of the document makes scrape_table_data, called on the same
\* document, select that i-th table.
C23_SelectorResolvesSameTable ==
    (dstage = "extracted" /\ applied.type = "table") =>
        /\ ~table_result.raised
        /\ selected # <<>>
        /\ selected[1] = applied.selector.n

\* the case of C23 that the code keeps: all the tables are siblings
C23_SiblingTablesResolve ==
    (/\ dstage = "extracted"
     /\ applied.type = "table"
     /\ \A i \in 1..Len(response.body.parents) :
            response.body.parents[i] = response.body.parents[1]) =>
        /\ ~table_result.raised
        /\ selected[1] = applied.selector.n

----------------------------------------------------------------------------
(* Properties of Spec: the two requests of one page.                       *)

\* C26: the 'next' link the crawl follows from a page is taken from the same
\* response as the records appended for that page, also when the server's
\* document changes between two requests.
C26_LinkFromRecordsResponse ==
    (pc = "crawl" /\ links # <<>>) => link_rev = records_rev

----------------------------------------------------------------------------
(* Properties of the rate limiter (SpecRate) and of the routes (SpecRoutes)*)

\* the number of times in log that lie in the span from..to
CountIn(log, from, to) ==
    Cardinality({k \in 1..Len(log) : log[k] >= from /\ log[k] <= to})

\* C21: a validate-url request that a client sends after it has sent as
\* many as the validation limit within the window is rejected with 429.
C21_ExcessValidationsRejected ==
    \A ip \in ClientIps :
        (/\ sent[ip] # <<>>
         /\ CountIn(sent[ip],
                    sent[ip][Len(sent[ip])] - limit_config("validation").window,
                    sent[ip][Len(sent[ip])])
                > limit_config("validation").max_requests)
            => answer = 429

\* a queue that is what is left of q after some of its first entries went
IsSuffix(q2, q) == \E k \in 0..Len(q) : q2 = SubSeq(q, k + 1, Len(q))

C30_BudgetsIndependent ==
    rl_last.endpoint_type \in EndpointTypes =>
        LET T == rl_last.endpoint_type
            earlier == CountIn(rl_allowed[rl_last.client_ip][T],
                               rl_last.time - limit_config(T).window, rl_last.time)
                            - (IF rl_last.allowed THEN 1 ELSE 0)
        IN  rl_last.allowed <=> earlier < limit_config(T).max_requests

====
